---------------------------- MODULE Spec2Model ----------------------------
(***************************************************************************)
(* Hybrid movie recommender: the web application (app.py), the history     *)
(* scorer (recommender_history.py), the preference scorer                  *)
(* (recommender_prefs.py) and the command-line fusion                      *)
(* (hybrid_recommender.py).                                                *)
(*                                                                         *)
(* Arithmetic.  Ratings are carried in half stars (5.0 stars = 10).        *)
(* Normalised and fused scores are exact rationals: a numerator together   *)
(* with a denominator that is common to one request.  np.log1p and the     *)
(* cosine similarity are carried in fixed point (1/100).                   *)
(***************************************************************************)
EXTENDS Integers, Sequences, FiniteSets, TLC

VARIABLES
    ratings,      \* the ratings table: user -> movie_id -> half stars (0: no row)
    rateCount,    \* number of rate() submissions handled so far
    TMDB_API_KEY, \* whether the process was started with a TMDB key
    LANG_CACHE,   \* tmdb id -> cached original_language ("absent": no entry)
    phase,        \* "idle" | "responded": position of the single-threaded server
    last,         \* what the last handler computed (None when idle); raised is
                  \* what its recommend_from_history call raised ("none": returned)
    cli,          \* what the last run of hybrid_recommender.py printed (None before)
    normIn,       \* a series handed to min_max_normalize
    normOut,      \* its output
    fuse,         \* two candidates fused under two alphas
    submitted,    \* the last rate() request handled, with the table before it
    lookup,       \* the last get_original_language call, with the cache before it
    histRun,      \* a ratings table and what recommend_from_history made of it
    prefRun       \* a pool, a profile and what score_by_preferences made of them

vars == <<ratings, rateCount, TMDB_API_KEY, LANG_CACHE, phase, last, cli,
          normIn, normOut, fuse, submitted, lookup, histRun, prefRun>>

\* The absent value of last, cli, normOut and fuse (all records).
None == [none |-> TRUE]

-----------------------------------------------------------------------------
(* Bounds of the model *)

MaxRates == 2
MaxTopN == 3
AlphaDen == 2
MaxLen == 3
MaxVal == 2
NormDen == 2

-----------------------------------------------------------------------------
(* Program constants *)

MIN_CANDIDATE_RATINGS == 10
HIDDEN_GEM_THRESHOLD == 5000
HIST_TOP_N == 500
MAX_NEIGHBORS == 3000
MIN_MOVIE_RATINGS == 5
MIN_RATINGS == 30
PREF_HIDDEN_THRESHOLD == 500
DEFAULT_YEAR == 1900
\* 3.0 stars, in half stars
NEUTRAL == 6
\* chosen genres get weight 2.0; penalties 3.0 (no genre match) and 2.0 (too old)
GENRE_WEIGHT == 2
GENRE_PENALTY == 3
YEAR_PENALTY == 2
\* rarity * 3.0
RARITY_BOOST == 3

MY_USER_ID == "me"
Users == {"me", "u1", "u2", "u3", "u4", "u5"}

\* The genre flags modelled (two of the seven columns; the others are
\* handled by the same code).
Genres == {"Horror", "Comedy"}

-----------------------------------------------------------------------------
(* Reference data: the movie_features_with_links view.  movie_id is the    *)
(* position.  year 0 and tmdb_id 0 are SQL NULL.  lang is what the         *)
(* provider answers for the tmdb id when it answers with HTTP 200          *)
(* ("NA": the answer has no original_language).                            *)

Catalog == <<
  [genres |-> {"Horror"},           year |-> 1975, avg10 |-> 40, num_ratings |-> 6000, tmdb_id |-> 11, lang |-> "en"],
  [genres |-> {"Horror", "Comedy"}, year |-> 2005, avg10 |-> 35, num_ratings |-> 800,  tmdb_id |-> 12, lang |-> "fr"],
  [genres |-> {"Comedy"},           year |-> 1990, avg10 |-> 30, num_ratings |-> 120,  tmdb_id |-> 13, lang |-> "NA"],
  [genres |-> {},                   year |-> 0,    avg10 |-> 45, num_ratings |-> 9000, tmdb_id |-> 0,  lang |-> "NA"],
  [genres |-> {"Comedy"},           year |-> 1985, avg10 |-> 38, num_ratings |-> 8,    tmdb_id |-> 0,  lang |-> "NA"]
>>

Movies == DOMAIN Catalog

TmdbIds == {Catalog[m].tmdb_id : m \in Movies} \ {0}

\* The rows of the other users (MovieLens data; rate() never writes them).
NeighborRatings ==
  [u1 |-> <<10, 8, 2, 9, 6>>,
   u2 |-> <<9, 10, 1, 4, 0>>,
   u3 |-> <<2, 3, 9, 8, 0>>,
   u4 |-> <<8, 0, 3, 10, 8>>,
   u5 |-> <<3, 9, 8, 2, 0>>]

\* The ratings rate() is submitted with, in half stars.
RateValues == {2, 10}

-----------------------------------------------------------------------------
(* Helpers *)

Range(s) == {s[i] : i \in DOMAIN s}

Max2(a, b) == IF a >= b THEN a ELSE b
Min2(a, b) == IF a <= b THEN a ELSE b

RECURSIVE SumOver(_, _)
SumOver(S, f) ==
  IF S = {} THEN 0
  ELSE LET x == CHOOSE y \in S : TRUE IN f[x] + SumOver(S \ {x}, f)

SetMax(S) == CHOOSE x \in S : \A y \in S : y <= x
SetMin(S) == CHOOSE x \in S : \A y \in S : x <= y

\* The ids of S in ascending order (a frame's row order).
RECURSIVE SortedSeq(_)
SortedSeq(S) ==
  IF S = {} THEN <<>>
  ELSE LET x == SetMin(S) IN <<x>> \o SortedSeq(S \ {x})

Head_n(s, n) == SubSeq(s, 1, Min2(Len(s), Max2(n, 0)))

\* DataFrame.sort_values(key, ascending=False): descending by key, rows
\* with equal keys keep their order in the frame.
RECURSIVE sort_values_desc(_, _)
sort_values_desc(s, key) ==
  IF s = <<>> THEN <<>>
  ELSE LET top == SetMax({key[s[i]] : i \in DOMAIN s})
           i0 == CHOOSE i \in DOMAIN s :
                   key[s[i]] = top /\ \A j \in DOMAIN s : key[s[j]] = top => i <= j
       IN <<s[i0]>> \o sort_values_desc(SubSeq(s, 1, i0 - 1) \o SubSeq(s, i0 + 1, Len(s)), key)

\* Largest k with k * k <= x.
RECURSIVE IsqrtIter(_, _, _)
IsqrtIter(x, lo, hi) ==
  IF lo >= hi THEN lo
  ELSE LET mid == (lo + hi + 1) \div 2
       IN IF mid * mid <= x THEN IsqrtIter(x, mid, hi) ELSE IsqrtIter(x, lo, mid - 1)

Isqrt(x) == IsqrtIter(x, 0, 46340)

\* np.log1p(n) in 1/100, for the rating counts of the catalog.
Log1pCenti(n) ==
  CASE n = 6000 -> 870
    [] n = 800  -> 669
    [] n = 120  -> 480
    [] n = 9000 -> 911
    [] n = 8    -> 220

-----------------------------------------------------------------------------
(* min_max_normalize: the series as a function over its index; the result  *)
(* is the numerators and their common denominator.                         *)

min_max_normalize_nocheck(idx, s) ==
  IF idx = {} THEN [num |-> [i \in idx |-> 0], den |-> 1]
  ELSE LET s_min == SetMin({s[i] : i \in idx})
           s_max == SetMax({s[i] : i \in idx})
       IN [num |-> [i \in idx |-> s[i] - s_min], den |-> s_max - s_min]

min_max_normalize(idx, s) ==
  IF idx = {} THEN [num |-> [i \in idx |-> 0], den |-> 1]
  ELSE LET s_min == SetMin({s[i] : i \in idx})
           s_max == SetMax({s[i] : i \in idx})
       IN IF s_max = s_min
          THEN [num |-> [i \in idx |-> 0], den |-> 1]
          ELSE [num |-> [i \in idx |-> s[i] - s_min], den |-> s_max - s_min]

-----------------------------------------------------------------------------
(* recommender_history.py *)

HasRated(rt, u, m) == rt[u][m] # 0

RatedBy(rt, u) == {m \in Movies : HasRated(rt, u, m)}

\* SELECT DISTINCT user_id ... LIMIT max_neighbors: the rows the LIMIT keeps
\* are the store's choice.
NeighborChoices(rt, user_id, max_neighbors) ==
  LET cand == {u \in Users \ {user_id} :
                 \E m \in RatedBy(rt, user_id) : HasRated(rt, u, m)}
  IN {S \in SUBSET cand : Cardinality(S) = Min2(Cardinality(cand), max_neighbors)}

\* err: "none", or the failure raised.  index and columns are those of
\* rating_matrix; its cells are the rows of rt, absent cells NaN (0 in
\* rating_matrix_filled).
_build_local_matrix(rt, user_id, neighbor_ids, min_movie_ratings) ==
  IF RatedBy(rt, user_id) = {}
  THEN [err |-> "no_ratings", index |-> {}, columns |-> {}]
  ELSE LET all_users == neighbor_ids \cup {user_id}
           movie_counts == [m \in Movies |->
                              Cardinality({u \in all_users : HasRated(rt, u, m)})]
           popular_movies == {m \in Movies : movie_counts[m] >= min_movie_ratings}
           index == {u \in all_users : \E m \in popular_movies : HasRated(rt, u, m)}
       IN IF index = {}
          THEN [err |-> "not_enough_data", index |-> {}, columns |-> {}]
          ELSE [err |-> "none", index |-> index, columns |-> popular_movies]

\* cosine_similarity(rating_matrix_filled.T)[i][j], in 1/100.
cosine_similarity(rt, index, i, j) ==
  LET dot(a, b) == SumOver(index, [u \in index |-> rt[u][a] * rt[u][b]])
  IN (6400 * dot(i, j)) \div Isqrt(4096 * dot(i, i) * dot(j, j))

recommend_from_history_keeprated(rt, user_id, neighbor_ids, top_n, min_ratings) ==
  LET mat == _build_local_matrix(rt, user_id, neighbor_ids, MIN_MOVIE_RATINGS)
      fail(e) == [err |-> e, rows |-> <<>>, score |-> <<>>]
  IN IF mat.err # "none" THEN fail(mat.err)
     ELSE IF user_id \notin mat.index THEN fail("key_error")
     ELSE LET movie_ids == mat.columns
              rated == {m \in movie_ids : HasRated(rt, user_id, m)}
              scores == [j \in movie_ids |->
                           SumOver(rated, [i \in rated |->
                             cosine_similarity(rt, mat.index, i, j)
                               * (rt[user_id][i] - NEUTRAL)])]
              positive == {j \in movie_ids : scores[j] > 0}
          IN IF positive = {} THEN fail("no_positive")
             ELSE LET joined == {j \in positive : Catalog[j].num_ratings >= min_ratings}
                  IN IF joined = {} THEN fail("no_candidates")
                     ELSE [err |-> "none",
                           rows |-> Head_n(sort_values_desc(SortedSeq(joined), scores), top_n),
                           score |-> scores]

\* rows: the returned frame's movie_ids in order; score: their scores, in
\* 1/100 of a half star.
recommend_from_history(rt, user_id, neighbor_ids, top_n, min_ratings) ==
  LET mat == _build_local_matrix(rt, user_id, neighbor_ids, MIN_MOVIE_RATINGS)
      fail(e) == [err |-> e, rows |-> <<>>, score |-> <<>>]
  IN IF mat.err # "none" THEN fail(mat.err)
     ELSE IF user_id \notin mat.index THEN fail("key_error")
     ELSE LET movie_ids == mat.columns
              rated == {m \in movie_ids : HasRated(rt, user_id, m)}
              scores == [j \in movie_ids |->
                           SumOver(rated, [i \in rated |->
                             cosine_similarity(rt, mat.index, i, j)
                               * (rt[user_id][i] - NEUTRAL)])]
              unseen == movie_ids \ rated
              positive == {j \in unseen : scores[j] > 0}
          IN IF positive = {} THEN fail("no_positive")
             ELSE LET joined == {j \in positive : Catalog[j].num_ratings >= min_ratings}
                  IN IF joined = {} THEN fail("no_candidates")
                     ELSE [err |-> "none",
                           rows |-> Head_n(sort_values_desc(SortedSeq(joined), scores), top_n),
                           score |-> scores]

-----------------------------------------------------------------------------
(* recommender_prefs.py *)

\* Fixed point of the preference score: score_by_preferences returns the
\* score times PrefUnit * Len(df), an integer.
PrefUnit == 10 * 100

score_by_preferences_noyear(df, prefs) ==
  LET N == Len(df)
      rows == Range(df)
      selected_cols == {g \in DOMAIN prefs.genre_weights : prefs.genre_weights[g] # 0}
      base(m) ==
        Catalog[m].avg10 * (PrefUnit \div 10)
        + SumOver(selected_cols \cap Catalog[m].genres,
                  [g \in selected_cols |-> prefs.genre_weights[g] * PrefUnit])
        - (IF selected_cols # {} /\ selected_cols \cap Catalog[m].genres = {}
           THEN GENRE_PENALTY * PrefUnit ELSE 0)
      pop(m) == Catalog[m].num_ratings
      log_pop == [m \in rows |-> Log1pCenti(pop(m))]
      log_min == SetMin({log_pop[m] : m \in rows})
      log_sum == SumOver(rows, log_pop)
      rarity(m) == Max2(PREF_HIDDEN_THRESHOLD - pop(m), 0)
      shaped(m) ==
        CASE prefs.popularity_pref = "popular" ->
               N * (base(m) + log_pop[m] * (PrefUnit \div 100))
          [] prefs.popularity_pref = "hidden" ->
               N * (base(m)
                    + (RARITY_BOOST * PrefUnit * rarity(m)) \div PREF_HIDDEN_THRESHOLD
                    - (log_pop[m] - log_min) * 2 * (PrefUnit \div (10 * 100)))
          [] OTHER ->
               N * base(m) + (N * log_pop[m] - log_sum) * 3 * (PrefUnit \div (10 * 100))
  IN [m \in rows |-> shaped(m)]

\* prefs: [genre_weights: genre -> weight, year_min, popularity_pref].
score_by_preferences(df, prefs) ==
  LET N == Len(df)
      rows == Range(df)
      selected_cols == {g \in DOMAIN prefs.genre_weights : prefs.genre_weights[g] # 0}
      year(m) == IF Catalog[m].year = 0 THEN DEFAULT_YEAR ELSE Catalog[m].year
      base(m) ==
        Catalog[m].avg10 * (PrefUnit \div 10)
        + SumOver(selected_cols \cap Catalog[m].genres,
                  [g \in selected_cols |-> prefs.genre_weights[g] * PrefUnit])
        - (IF selected_cols # {} /\ selected_cols \cap Catalog[m].genres = {}
           THEN GENRE_PENALTY * PrefUnit ELSE 0)
        - (IF year(m) >= prefs.year_min THEN 0 ELSE YEAR_PENALTY * PrefUnit)
      pop(m) == Catalog[m].num_ratings
      log_pop == [m \in rows |-> Log1pCenti(pop(m))]
      log_min == SetMin({log_pop[m] : m \in rows})
      log_sum == SumOver(rows, log_pop)
      rarity(m) == Max2(PREF_HIDDEN_THRESHOLD - pop(m), 0)
      shaped(m) ==
        CASE prefs.popularity_pref = "popular" ->
               N * (base(m) + log_pop[m] * (PrefUnit \div 100))
          [] prefs.popularity_pref = "hidden" ->
               N * (base(m)
                    + (RARITY_BOOST * PrefUnit * rarity(m)) \div PREF_HIDDEN_THRESHOLD
                    - (log_pop[m] - log_min) * 2 * (PrefUnit \div (10 * 100)))
          [] OTHER ->
               N * base(m) + (N * log_pop[m] - log_sum) * 3 * (PrefUnit \div (10 * 100))
  IN [m \in rows |-> shaped(m)]

\* recommender_prefs.load_candidates: the movie_features view, num_ratings >= 10.
prefs_load_candidates ==
  SelectSeq(SortedSeq(Movies), LAMBDA m : Catalog[m].num_ratings >= MIN_CANDIDATE_RATINGS)

\* rows and their pref_score (times PrefUnit * Len(pool)).
recommend_from_preferences(prefs, top_n) ==
  LET df == prefs_load_candidates
      pref_score == score_by_preferences(df, prefs)
  IN [rows |-> Head_n(sort_values_desc(df, pref_score), top_n),
      pref_score |-> pref_score,
      unit |-> PrefUnit * Len(df)]

-----------------------------------------------------------------------------
(* app.py *)

\* The provider's answer to one call: "fail" (non-200, timeout, exception)
\* for the ids in down, else the catalog's language of the id.
ProviderAnswer(down, tmdb_id) ==
  IF tmdb_id \in down THEN "fail"
  ELSE LET m == CHOOSE x \in Movies : Catalog[x].tmdb_id = tmdb_id IN Catalog[m].lang

get_original_language_cachefail(key, cache, down, tmdb_id) ==
  IF ~key \/ tmdb_id = 0 THEN [lang |-> "NA", cache |-> cache, asked |-> FALSE]
  ELSE IF cache[tmdb_id] # "absent"
  THEN [lang |-> cache[tmdb_id], cache |-> cache, asked |-> FALSE]
  ELSE LET resp == ProviderAnswer(down, tmdb_id)
       IN IF resp = "fail"
          THEN [lang |-> "NA", cache |-> [cache EXCEPT ![tmdb_id] = "NA"], asked |-> TRUE]
          ELSE [lang |-> resp, cache |-> [cache EXCEPT ![tmdb_id] = resp], asked |-> TRUE]

\* get_original_language: [lang, cache, asked]; lang "NA" is None; asked:
\* requests.get was called.
get_original_language(key, cache, down, tmdb_id) ==
  IF ~key \/ tmdb_id = 0 THEN [lang |-> "NA", cache |-> cache, asked |-> FALSE]
  ELSE IF cache[tmdb_id] # "absent"
  THEN [lang |-> cache[tmdb_id], cache |-> cache, asked |-> FALSE]
  ELSE LET resp == ProviderAnswer(down, tmdb_id)
       IN IF resp = "fail" THEN [lang |-> "NA", cache |-> cache, asked |-> TRUE]
          ELSE [lang |-> resp, cache |-> [cache EXCEPT ![tmdb_id] = resp], asked |-> TRUE]

\* for _, row in merged.iterrows(): langs.append(get_original_language(...))
RECURSIVE ResolveLanguages(_, _, _, _)
ResolveLanguages(key, cache, down, rows) ==
  IF rows = <<>> THEN [langs |-> <<>>, cache |-> cache]
  ELSE LET r == get_original_language(key, cache, down, Catalog[Head(rows)].tmdb_id)
           rest == ResolveLanguages(key, r.cache, down, Tail(rows))
       IN [langs |-> <<r.lang>> \o rest.langs, cache |-> rest.cache]

load_candidates ==
  SelectSeq(SortedSeq(Movies), LAMBDA m : Catalog[m].num_ratings >= MIN_CANDIDATE_RATINGS)

get_user_rated_movie_ids(rt, user_id) == {m \in Movies : rt[user_id][m] # 0}

DropRated_keep(candidates, rated_ids) == candidates

\* 1a) drop movies this user already rated
DropRated(candidates, rated_ids) ==
  SelectSeq(candidates, LAMBDA m : m \notin rated_ids)

GenreGate_off(candidates, genres_chosen) == candidates

\* optional hard filter on genres if any chosen
GenreGate(candidates, genres_chosen) ==
  IF genres_chosen # {}
  THEN SelectSeq(candidates, LAMBDA m : Catalog[m].genres \cap genres_chosen # {})
  ELSE candidates

FinalScore_swapped(a, pn, pd, hn, hd) == (AlphaDen - a) * pn * hd + a * hn * pd

\* alpha * pref_norm + (1 - alpha) * history_norm for alpha = a / AlphaDen,
\* pref_norm = pn / pd, history_norm = hn / hd, times AlphaDen * pd * hd.
FinalScore(a, pn, pd, hn, hd) == a * pn * hd + (AlphaDen - a) * hn * pd

DropNonPositive_geq(rows, final) == SelectSeq(rows, LAMBDA m : final[m] >= 0)

\* merged = merged[merged["final_score"] > 0]
DropNonPositive(rows, final) == SelectSeq(rows, LAMBDA m : final[m] > 0)

\* Sub-frame of rows at the positions in pick, order kept.
RowsAt(rows, pick) ==
  [i \in 1..Cardinality(pick) |->
     rows[CHOOSE k \in pick : Cardinality({j \in pick : j < k}) = i - 1]]

ForeignFilter_noskip(rows, langs, choice) ==
  RowsAt(rows, {i \in DOMAIN rows :
                  IF choice = "exclude"
                  THEN langs[i] = "NA" \/ langs[i] = "en"
                  ELSE langs[i] # "NA" /\ langs[i] # "en"})

ForeignFilter_dropunknown(rows, langs, choice) ==
  IF \E i \in DOMAIN rows : langs[i] # "NA"
  THEN RowsAt(rows, {i \in DOMAIN rows :
                       IF choice = "exclude"
                       THEN langs[i] = "en"
                       ELSE langs[i] # "NA" /\ langs[i] # "en"})
  ELSE rows

\* 6) the rows the language filter keeps; langs[i] is the language of rows[i].
ForeignFilter(rows, langs, choice) ==
  LET idx == {i \in DOMAIN rows : langs[i] # "NA"}
      keep(i) == IF choice = "exclude"
                 THEN langs[i] = "NA" \/ langs[i] = "en"
                 ELSE langs[i] # "NA" /\ langs[i] # "en"
      pick == {i \in DOMAIN rows : keep(i)}
  IN IF idx # {} THEN RowsAt(rows, pick) ELSE rows

FinalOrder_nopad(rows, final, popularity_pref, top_n) ==
  LET sorted == sort_values_desc(rows, final)
  IN IF popularity_pref = "hidden"
     THEN Head_n(SelectSeq(sorted, LAMBDA m : Catalog[m].num_ratings < HIDDEN_GEM_THRESHOLD),
                 top_n)
     ELSE Head_n(sorted, top_n)

\* 7) hidden gems vs normal popularity
FinalOrder(rows, final, popularity_pref, top_n) ==
  LET sorted == sort_values_desc(rows, final)
  IN IF popularity_pref = "hidden"
     THEN LET hidden == SelectSeq(sorted, LAMBDA m : Catalog[m].num_ratings < HIDDEN_GEM_THRESHOLD)
          IN IF Len(hidden) >= top_n
             THEN Head_n(hidden, top_n)
             ELSE LET rest == SelectSeq(sorted, LAMBDA m : Catalog[m].num_ratings >= HIDDEN_GEM_THRESHOLD)
                  IN hidden \o Head_n(rest, top_n - Len(hidden))
     ELSE Head_n(sorted, top_n)

hist_df_or_empty(raw) ==
  IF raw.err # "none" THEN [err |-> "none", rows |-> <<>>, score |-> <<>>] ELSE raw

\* 2) hist_df = recommend_from_history(user_id, top_n=500), not in a try: what
\* the call raises leaves compute_hybrid_recs; else movie_id and score are kept.
hist_df(raw) ==
  IF raw.err # "none" THEN raw ELSE [err |-> "none", rows |-> raw.rows, score |-> raw.score]

\* compute_hybrid_recs, steps 1 to 5 (normalise): the candidate frame with
\* its score columns.  hist is the frame recommend_from_history returned.
ScoreCandidates(rt, hist, user_id, genres_chosen, year_min, popularity_pref) ==
  LET rated_ids == get_user_rated_movie_ids(rt, user_id)
      pool == DropRated(load_candidates, rated_ids)
      prefs == [genre_weights |-> [g \in Genres |->
                                     IF g \in genres_chosen THEN GENRE_WEIGHT ELSE 0],
                year_min |-> year_min,
                popularity_pref |-> popularity_pref]
      candidates == GenreGate(pool, genres_chosen)
      idx == Range(candidates)
      pref_score == score_by_preferences(candidates, prefs)
      history_score == [m \in idx |->
                          IF m \in Range(hist.rows) THEN hist.score[m] ELSE 0]
  IN [candidates |-> candidates,
      pref_score |-> pref_score,
      history_score |-> history_score,
      history_norm |-> min_max_normalize(idx, history_score),
      pref_norm |-> min_max_normalize(idx, pref_score)]

\* step 5 (combine) and the drop of non positive final scores; alpha is
\* a / AlphaDen and final_score is carried times final_den.
Combine(sc, a) ==
  LET final_score == [m \in Range(sc.candidates) |->
                        FinalScore(a, sc.pref_norm.num[m], sc.pref_norm.den,
                                   sc.history_norm.num[m], sc.history_norm.den)]
  IN [final_score |-> final_score,
      final_den |-> AlphaDen * sc.pref_norm.den * sc.history_norm.den,
      scored |-> DropNonPositive(sc.candidates, final_score)]

effective_foreign_choice_gated(key, foreign_choice) ==
  IF ~key THEN "any"
  ELSE IF foreign_choice = "any" THEN "exclude" ELSE foreign_choice

\* If no TMDB key, foreign filter cannot work. Treat as "any".
effective_foreign_choice(key, foreign_choice) ==
  IF ~key THEN "any" ELSE foreign_choice

\* steps 6 to 8: the language filter, the final order, the returned list.
FilterAndOrder(key, cache, down, sc, fu, popularity_pref, foreign_choice, top_n) ==
  LET effective == effective_foreign_choice(key, foreign_choice)
      gate == effective \in {"exclude", "only"}
      resolved == IF gate THEN ResolveLanguages(key, cache, down, fu.scored)
                  ELSE [langs |-> <<>>, cache |-> cache]
      eligible == IF gate
                  THEN ForeignFilter(fu.scored, resolved.langs, effective)
                  ELSE fu.scored
  IN [err |-> "none",
      cache |-> resolved.cache,
      candidates |-> sc.candidates,
      pref_norm |-> sc.pref_norm,
      history_norm |-> sc.history_norm,
      final_score |-> fu.final_score,
      final_den |-> fu.final_den,
      scored |-> fu.scored,
      gate |-> gate,
      langs |-> resolved.langs,
      eligible |-> eligible,
      results |-> FinalOrder(eligible, fu.final_score, popularity_pref, top_n)]

\* compute_hybrid_recs.  err # "none": the exception raised; else results
\* is the returned list, as movie ids, with the columns it was built from.
compute_hybrid_recs(rt, key, cache, down, hist, user_id, genres_chosen, year_min, popularity_pref, a, foreign_choice, top_n) ==
  IF hist.err # "none"
  THEN [err |-> hist.err, cache |-> cache]
  ELSE LET sc == ScoreCandidates(rt, hist, user_id, genres_chosen, year_min, popularity_pref)
       IN FilterAndOrder(key, cache, down, sc, Combine(sc, a),
                         popularity_pref, foreign_choice, top_n)

-----------------------------------------------------------------------------
(* The web application as a state machine *)

YearMins == {1900, 1980, 2000}
PopularityPrefs == {"popular", "hidden", "mixed"}
ForeignChoices == {"any", "exclude", "only"}
\* alpha = a / AlphaDen; index() hands any float on, so one value on each
\* side of [0, 1] is kept.
AlphaNums == (0 - 1)..(AlphaDen + 1)

EmptyCache == [t \in TmdbIds |-> "absent"]

\* The ratings table when the process starts: the local user has no rating
\* yet, or has rated movie 1 with 5.0 stars.
InitRatings ==
  {[u \in Users |-> IF u = MY_USER_ID
                    THEN [m \in Movies |-> IF m = 1 THEN first ELSE 0]
                    ELSE NeighborRatings[u]] : first \in {0, 10}}

OthersIdle ==
  submitted = None /\ lookup = None /\ histRun = None /\ prefRun = None

SeriesIdle == normIn = <<>> /\ normOut = None /\ fuse = None /\ OthersIdle

Init ==
  /\ ratings \in InitRatings
  /\ rateCount = 0
  /\ TMDB_API_KEY \in BOOLEAN
  /\ LANG_CACHE = EmptyCache
  /\ phase = "idle"
  /\ last = None
  /\ cli = None
  /\ SeriesIdle

Upsert_row(rt, user_id, movie_id, rating) ==
  [rt EXCEPT ![user_id] = [m \in Movies |-> IF m = movie_id THEN rating ELSE 0]]

\* INSERT INTO ratings ... ON CONFLICT (user_id, movie_id) DO UPDATE SET rating
Upsert(rt, user_id, movie_id, rating) ==
  [rt EXCEPT ![user_id][movie_id] = rating]

\* rate(): INSERT ... ON CONFLICT (user_id, movie_id) DO UPDATE
Rate(movie_id, rating) ==
  /\ phase = "idle"
  /\ cli = None
  /\ rateCount < MaxRates
  /\ ratings' = Upsert(ratings, MY_USER_ID, movie_id, rating)
  /\ rateCount' = rateCount + 1
  /\ UNCHANGED <<TMDB_API_KEY, LANG_CACHE, phase, last, cli, normIn, normOut, fuse,
                 submitted, lookup, histRun, prefRun>>

\* The tmdb ids the request asks the provider for: those of the rows that
\* reach the language filter and are not cached.
ProviderCalls(hist, fu, foreign_choice) ==
  IF hist.err = "none"
       /\ effective_foreign_choice(TMDB_API_KEY, foreign_choice) \in {"exclude", "only"}
  THEN {Catalog[m].tmdb_id : m \in Range(fu.scored)}
         \cap {t \in TmdbIds : LANG_CACHE[t] = "absent"}
  ELSE {}

\* index(), POST: compute_hybrid_recs for MY_USER_ID; an exception becomes
\* the page's error.
Index ==
  /\ phase = "idle"
  /\ \E neighbor_ids \in NeighborChoices(ratings, MY_USER_ID, MAX_NEIGHBORS) :
     \E raw \in {recommend_from_history(ratings, MY_USER_ID, neighbor_ids,
                                        HIST_TOP_N, MIN_RATINGS)} :
     \E hist \in {hist_df(raw)} :
     \E genres_chosen \in SUBSET Genres, year_min \in YearMins,
        popularity_pref \in PopularityPrefs :
     \E sc \in {ScoreCandidates(ratings, hist, MY_USER_ID, genres_chosen,
                                year_min, popularity_pref)} :
     \E a \in AlphaNums :
     \E fu \in {Combine(sc, a)} :
     \E foreign_choice \in ForeignChoices, top_n \in 1..MaxTopN :
     \E down \in SUBSET ProviderCalls(hist, fu, foreign_choice) :
       LET out == IF hist.err # "none"
                  THEN [err |-> hist.err, cache |-> LANG_CACHE]
                  ELSE FilterAndOrder(TMDB_API_KEY, LANG_CACHE, down, sc, fu,
                                      popularity_pref, foreign_choice, top_n)
       IN /\ last' = [genres_chosen |-> genres_chosen, year_min |-> year_min,
                      popularity_pref |-> popularity_pref, a |-> a,
                      foreign_choice |-> foreign_choice, top_n |-> top_n,
                      down |-> down, raised |-> raw.err, out |-> out, first |-> None]
          /\ LANG_CACHE' = out.cache
  /\ phase' = "responded"
  /\ UNCHANGED <<ratings, rateCount, TMDB_API_KEY, cli, normIn, normOut, fuse,
                 submitted, lookup, histRun, prefRun>>

\* render_template: the response is sent, the server waits for the next request.
Render ==
  /\ phase = "responded"
  /\ phase' = "idle"
  /\ last' = None
  /\ UNCHANGED <<ratings, rateCount, TMDB_API_KEY, LANG_CACHE, cli, normIn, normOut, fuse,
                 submitted, lookup, histRun, prefRun>>

Next ==
  \/ \E movie_id \in Movies, rating \in RateValues : Rate(movie_id, rating)
  \/ Index
  \/ Render

Spec == Init /\ [][Next]_vars

\* index() again with the form unchanged (the page is reloaded): the same
\* handler on the same ratings; first keeps what the first run returned.
Resubmit ==
  /\ phase = "responded"
  /\ last.first = None
  /\ \E neighbor_ids \in NeighborChoices(ratings, MY_USER_ID, MAX_NEIGHBORS) :
     \E raw \in {recommend_from_history(ratings, MY_USER_ID, neighbor_ids,
                                        HIST_TOP_N, MIN_RATINGS)} :
     \E hist \in {hist_df(raw)} :
     \E sc \in {ScoreCandidates(ratings, hist, MY_USER_ID, last.genres_chosen,
                                last.year_min, last.popularity_pref)} :
     \E fu \in {Combine(sc, last.a)} :
     \E down \in SUBSET ProviderCalls(hist, fu, last.foreign_choice) :
       LET out == IF hist.err # "none"
                  THEN [err |-> hist.err, cache |-> LANG_CACHE]
                  ELSE FilterAndOrder(TMDB_API_KEY, LANG_CACHE, down, sc, fu,
                                      last.popularity_pref, last.foreign_choice, last.top_n)
       IN /\ last' = [last EXCEPT !.down = down, !.raised = raw.err, !.out = out,
                                      !.first = last.out]
          /\ LANG_CACHE' = out.cache
  /\ UNCHANGED <<ratings, rateCount, TMDB_API_KEY, phase, cli, normIn, normOut, fuse,
                 submitted, lookup, histRun, prefRun>>

\* Two runs of one request on one snapshot of the ratings.
NextRepeat ==
  \/ Index
  \/ Resubmit
  \/ Render

SpecRepeat == Init /\ [][NextRepeat]_vars

-----------------------------------------------------------------------------
(* hybrid_recommender.py *)

\* recommend_hybrid: hist and pref are the two frames; alpha is a / AlphaDen.
recommend_hybrid(hist, pref, a, top_n) ==
  IF hist.err # "none" THEN [err |-> hist.err]
  ELSE LET merged == SortedSeq(Range(hist.rows) \cup Range(pref.rows))
           idx == Range(merged)
           history_score == [m \in idx |->
                               IF m \in Range(hist.rows) THEN hist.score[m] ELSE 0]
           pref_score == [m \in idx |->
                            IF m \in Range(pref.rows) THEN pref.pref_score[m] ELSE 0]
           history_norm == min_max_normalize(idx, history_score)
           pref_norm == min_max_normalize(idx, pref_score)
           final_score == [m \in idx |->
                             FinalScore(a, pref_norm.num[m], pref_norm.den,
                                        history_norm.num[m], history_norm.den)]
           kept == DropNonPositive(merged, final_score)
       IN [err |-> "none",
           final_score |-> final_score,
           final_den |-> AlphaDen * pref_norm.den * history_norm.den,
           results |-> Head_n(sort_values_desc(kept, final_score), top_n)]

\* main(): ask_preferences, then recommend_hybrid for the user id entered.
HybridMain ==
  /\ cli = None
  /\ \E user_id \in Users :
     \E neighbor_ids \in NeighborChoices(ratings, user_id, MAX_NEIGHBORS) :
     \E top_n \in 1..MaxTopN :
     \E hist \in {recommend_from_history(ratings, user_id, neighbor_ids,
                                         top_n * 5, MIN_RATINGS)} :
     \E picks \in SUBSET Genres, year_min \in YearMins,
        popularity_pref \in PopularityPrefs, a \in 0..AlphaDen :
       LET prefs == [genre_weights |-> [g \in Genres |->
                                          IF g \in picks THEN GENRE_WEIGHT ELSE 0],
                     year_min |-> year_min,
                     popularity_pref |-> popularity_pref]
           pref == recommend_from_preferences(prefs, top_n * 5)
       IN cli' = [user_id |-> user_id, picks |-> picks, year_min |-> year_min,
                  popularity_pref |-> popularity_pref, a |-> a, top_n |-> top_n,
                  out |-> recommend_hybrid(hist, pref, a, top_n)]
  /\ UNCHANGED <<ratings, rateCount, TMDB_API_KEY, LANG_CACHE, phase, last,
                 normIn, normOut, fuse,
                 submitted, lookup, histRun, prefRun>>

\* The program has printed its list and exits.
HybridExit ==
  /\ cli # None
  /\ cli' = None
  /\ UNCHANGED <<ratings, rateCount, TMDB_API_KEY, LANG_CACHE, phase, last,
                 normIn, normOut, fuse,
                 submitted, lookup, histRun, prefRun>>

NextCli ==
  \/ \E movie_id \in Movies, rating \in RateValues : Rate(movie_id, rating)
  \/ HybridMain
  \/ HybridExit

SpecCli == Init /\ [][NextCli]_vars

-----------------------------------------------------------------------------
(* min_max_normalize on arbitrary series *)

SeriesOfLen(n) == [1..n -> (0 - MaxVal)..MaxVal]

WebIdle ==
  /\ ratings = [u \in Users |-> IF u = MY_USER_ID THEN [m \in Movies |-> 0]
                                ELSE NeighborRatings[u]]
  /\ rateCount = 0
  /\ TMDB_API_KEY = FALSE
  /\ LANG_CACHE = EmptyCache
  /\ phase = "idle"
  /\ last = None
  /\ cli = None
  /\ OthersIdle

InitNorm ==
  /\ WebIdle
  /\ \E n \in 1..MaxLen : normIn \in SeriesOfLen(n)
  /\ normOut = None
  /\ fuse = None

Normalize ==
  /\ normOut = None
  /\ normOut' = min_max_normalize(DOMAIN normIn, normIn)
  /\ UNCHANGED <<ratings, rateCount, TMDB_API_KEY, LANG_CACHE, phase, last, cli,
                 normIn, fuse,
                 submitted, lookup, histRun, prefRun>>

SpecNorm == InitNorm /\ [][Normalize]_vars

-----------------------------------------------------------------------------
(* The fusion formula on two candidates A and B under two alphas.  The     *)
(* normalised scores are k / NormDen, the alphas a1 / AlphaDen <= a2 /     *)
(* AlphaDen.                                                               *)

InitFusion ==
  /\ WebIdle
  /\ normIn = <<>>
  /\ normOut = None
  /\ \E pA \in 0..NormDen, hA \in 0..NormDen, pB \in 0..NormDen, hB \in 0..NormDen,
        a1 \in 0..AlphaDen, a2 \in 0..AlphaDen :
       /\ a1 <= a2
       /\ fuse = [pA |-> pA, hA |-> hA, pB |-> pB, hB |-> hB, a1 |-> a1, a2 |-> a2,
                  done |-> FALSE, fA1 |-> 0, fB1 |-> 0, fA2 |-> 0, fB2 |-> 0]

Fuse ==
  /\ ~fuse.done
  /\ fuse' = [fuse EXCEPT !.done = TRUE,
                          !.fA1 = FinalScore(fuse.a1, fuse.pA, NormDen, fuse.hA, NormDen),
                          !.fB1 = FinalScore(fuse.a1, fuse.pB, NormDen, fuse.hB, NormDen),
                          !.fA2 = FinalScore(fuse.a2, fuse.pA, NormDen, fuse.hA, NormDen),
                          !.fB2 = FinalScore(fuse.a2, fuse.pB, NormDen, fuse.hB, NormDen)]
  /\ UNCHANGED <<ratings, rateCount, TMDB_API_KEY, LANG_CACHE, phase, last, cli,
                 normIn, normOut,
                 submitted, lookup, histRun, prefRun>>

SpecFusion == InitFusion /\ [][Fuse]_vars

-----------------------------------------------------------------------------
(* Properties of compute_hybrid_recs (specification Spec) *)

Returned == last # None /\ last.out.err = "none"

IsGem(m) == Catalog[m].num_ratings < HIDDEN_GEM_THRESHOLD

\* C1: after any sequence of rate() submissions, the list compute_hybrid_recs
\* returns holds no movie the user has rated, whatever the request's
\* genres, year_min, popularity mode, alpha, foreign policy and top_n.
C1_RatedItemsExcluded ==
  Returned =>
    \A i \in DOMAIN last.out.results :
      last.out.results[i] \notin RatedBy(ratings, MY_USER_ID)

\* A list is returned after a rate() submission, to a user with two ratings.
C1_Witness ==
  /\ Returned
  /\ rateCount >= 1
  /\ Cardinality(RatedBy(ratings, MY_USER_ID)) >= 2
  /\ last.out.results # <<>>

\* C3: every returned item has final_score > 0, final_score being
\* alpha * pref_norm + (1 - alpha) * history_norm, in every popularity mode
\* and under every foreign policy.
C3_FinalScorePositive ==
  Returned =>
    /\ last.out.final_den > 0
    /\ \A i \in DOMAIN last.out.results :
         LET m == last.out.results[i]
         IN /\ last.out.final_score[m] > 0
            /\ last.out.final_score[m] =
                 last.a * last.out.pref_norm.num[m] * last.out.history_norm.den
                 + (AlphaDen - last.a) * last.out.history_norm.num[m] * last.out.pref_norm.den

\* Hidden mode pads with a non-gem while a candidate was dropped for a final
\* score that is not positive.
C3_Witness ==
  /\ Returned
  /\ last.popularity_pref = "hidden"
  /\ \E i \in DOMAIN last.out.results : ~IsGem(last.out.results[i])
  /\ \E i \in DOMAIN last.out.results : IsGem(last.out.results[i])
  /\ \E m \in Range(last.out.candidates) : last.out.final_score[m] <= 0

\* The candidates the genre gate lets through, from the tables alone.
GatedCandidates ==
  {m \in Movies :
     /\ Catalog[m].num_ratings >= MIN_CANDIDATE_RATINGS
     /\ m \notin RatedBy(ratings, MY_USER_ID)
     /\ Catalog[m].genres \cap last.genres_chosen # {}}

\* C4: with genres chosen, every returned item has one of the chosen genre
\* flags, and the gate precedes scoring, normalisation and fusion: the
\* normalised series range over the gated candidates only.
C4_GenreHardGate ==
  (Returned /\ last.genres_chosen # {}) =>
    /\ \A i \in DOMAIN last.out.results :
         Catalog[last.out.results[i]].genres \cap last.genres_chosen # {}
    /\ DOMAIN last.out.pref_norm.num = GatedCandidates
    /\ DOMAIN last.out.history_norm.num = GatedCandidates
    /\ DOMAIN last.out.final_score = GatedCandidates

\* Genres are chosen, the gate removes an unrated candidate, a list is returned.
C4_Witness ==
  /\ Returned
  /\ last.genres_chosen # {}
  /\ last.out.results # <<>>
  /\ \E m \in Movies :
       /\ Catalog[m].num_ratings >= MIN_CANDIDATE_RATINGS
       /\ m \notin RatedBy(ratings, MY_USER_ID)
       /\ Catalog[m].genres \cap last.genres_chosen = {}

GemsOf(rows) == {i \in DOMAIN rows : IsGem(rows[i])}

\* C6: in hidden mode with fewer than top_n eligible gems, the list has
\* min(top_n, number of eligible items) items, every gem precedes every
\* non-gem, and gems and non-gems are each in descending final_score order.
C6_HiddenGemPadding ==
  (Returned /\ last.popularity_pref = "hidden"
     /\ Cardinality(GemsOf(last.out.eligible)) < last.top_n) =>
    LET res == last.out.results
        f == last.out.final_score
    IN /\ Len(res) = Min2(last.top_n, Len(last.out.eligible))
       /\ \A i, j \in DOMAIN res : (IsGem(res[i]) /\ ~IsGem(res[j])) => i < j
       /\ \A i, j \in DOMAIN res :
            (i < j /\ IsGem(res[i]) = IsGem(res[j])) => f[res[i]] >= f[res[j]]
       /\ Range(res) \subseteq Range(last.out.eligible)
       /\ \A i, j \in DOMAIN res : i # j => res[i] # res[j]

\* Padding happens: gems and non-gems are returned, and a non-gem outscores a gem.
C6_Witness ==
  /\ Returned
  /\ last.popularity_pref = "hidden"
  /\ Cardinality(GemsOf(last.out.eligible)) < last.top_n
  /\ \E i, j \in DOMAIN last.out.results :
       /\ IsGem(last.out.results[i])
       /\ ~IsGem(last.out.results[j])
       /\ last.out.final_score[last.out.results[j]] > last.out.final_score[last.out.results[i]]

\* The list the same request returns under foreign_choice = "any": steps 1
\* to 5 do not read foreign_choice, steps 6 to 8 are run again on their output.
ResultsUnderAny ==
  FilterAndOrder(TMDB_API_KEY, LANG_CACHE, {},
                 [candidates |-> last.out.candidates,
                  pref_norm |-> last.out.pref_norm,
                  history_norm |-> last.out.history_norm],
                 [final_score |-> last.out.final_score,
                  final_den |-> last.out.final_den,
                  scored |-> last.out.scored],
                 last.popularity_pref, "any", last.top_n).results

AllUnknown == \A i \in DOMAIN last.out.langs : last.out.langs[i] = "NA"

\* C9: without an API key, or when every language lookup of the request
\* fails or returns nothing, "exclude" and "only" return the list "any"
\* returns; the filter does not empty the list.
C9_LanguageGateDegrades ==
  (Returned /\ last.foreign_choice \in {"exclude", "only"}
     /\ (~TMDB_API_KEY \/ AllUnknown)) =>
    last.out.results = ResultsUnderAny

\* With a key, "only", every provider call failing, a list is still returned.
C9_Witness ==
  /\ Returned
  /\ TMDB_API_KEY
  /\ last.foreign_choice = "only"
  /\ last.down # {}
  /\ last.out.langs # <<>>
  /\ AllUnknown
  /\ last.out.results # <<>>

\* C10: with the language filter active and one language known, an item of
\* unknown language is kept under "exclude" and dropped under "only"; an
\* item of known language is kept under "exclude" iff it is "en" and under
\* "only" iff it is not; nothing is raised, and a failed call changes the
\* language of no other item.
C10_PerItemLanguage ==
  (Returned /\ last.out.gate
     /\ \E i \in DOMAIN last.out.langs : last.out.langs[i] # "NA") =>
    LET rows == last.out.scored
        langs == last.out.langs
        kept(i) == IF last.foreign_choice = "exclude"
                   THEN langs[i] = "NA" \/ langs[i] = "en"
                   ELSE langs[i] # "NA" /\ langs[i] # "en"
    IN /\ DOMAIN langs = DOMAIN rows
       /\ \A i \in DOMAIN rows : (rows[i] \in Range(last.out.eligible)) <=> kept(i)
       /\ Range(last.out.eligible) \subseteq Range(rows)
       /\ \A i \in DOMAIN rows :
            (Catalog[rows[i]].tmdb_id # 0 /\ Catalog[rows[i]].tmdb_id \notin last.down)
              => langs[i] = Catalog[rows[i]].lang

\* Under "exclude" an item whose call failed is kept while a French one is dropped.
C10_Witness ==
  /\ Returned
  /\ last.out.gate
  /\ last.foreign_choice = "exclude"
  /\ \E i \in DOMAIN last.out.scored :
       /\ Catalog[last.out.scored[i]].tmdb_id \in last.down
       /\ last.out.langs[i] = "NA"
       /\ last.out.scored[i] \in Range(last.out.eligible)
  /\ \E j \in DOMAIN last.out.scored :
       /\ last.out.langs[j] = "fr"
       /\ last.out.scored[j] \notin Range(last.out.eligible)

-----------------------------------------------------------------------------
(* Two runs of one request (specification SpecRepeat) *)

TwoRuns == last # None /\ last.first # None

-----------------------------------------------------------------------------
(* Properties of recommend_hybrid (specification SpecCli) *)

\* C2: for a user with at least one rating, no row recommend_hybrid returns
\* is a movie that user has rated.
C2_CliRatedExcluded ==
  (cli # None /\ cli.out.err = "none" /\ RatedBy(ratings, cli.user_id) # {}) =>
    \A i \in DOMAIN cli.out.results :
      cli.out.results[i] \notin RatedBy(ratings, cli.user_id)

-----------------------------------------------------------------------------
(* Properties of min_max_normalize (specification SpecNorm) *)

\* C5: for a non-empty numeric series every output of min_max_normalize is
\* in [0,1] and equals (x - min) / (max - min); when all inputs are equal
\* every output is 0; the denominator is never 0.
C5_MinMaxNormalize ==
  normOut # None =>
    LET idx == DOMAIN normIn
        s_min == SetMin(Range(normIn))
        s_max == SetMax(Range(normIn))
    IN /\ DOMAIN normOut.num = idx
       /\ normOut.den > 0
       /\ \A i \in idx :
            /\ 0 <= normOut.num[i]
            /\ normOut.num[i] <= normOut.den
            /\ s_max # s_min =>
                 normOut.num[i] * (s_max - s_min) = (normIn[i] - s_min) * normOut.den
            /\ s_max = s_min => normOut.num[i] = 0

\* A constant series that is not zero has been normalised.
C5_Witness ==
  /\ normOut # None
  /\ Len(normIn) >= 2
  /\ \A i \in DOMAIN normIn : normIn[i] = normIn[1]
  /\ normIn[1] # 0

-----------------------------------------------------------------------------
(* Properties of the fusion formula (specification SpecFusion) *)

\* C7: for candidates A and B with pref_norm(A) >= history_norm(A) and
\* pref_norm(B) <= history_norm(B), a larger alpha in [0,1] never decreases
\* final_score(A) - final_score(B): if A is not below B under the smaller
\* alpha it is not below B under the larger.
C7_FusionMonotone ==
  (fuse # None /\ fuse.done /\ fuse.pA >= fuse.hA /\ fuse.pB <= fuse.hB) =>
    /\ fuse.fA2 - fuse.fB2 >= fuse.fA1 - fuse.fB1
    /\ fuse.fA1 >= fuse.fB1 => fuse.fA2 >= fuse.fB2

\* A is below B under the smaller alpha and above B under the larger.
C7_Witness ==
  /\ fuse # None
  /\ fuse.done
  /\ fuse.pA > fuse.hA
  /\ fuse.pB < fuse.hB
  /\ fuse.a1 < fuse.a2
  /\ fuse.fA1 < fuse.fB1
  /\ fuse.fA2 > fuse.fB2

-----------------------------------------------------------------------------
(* Failure of the history side (specification Spec) *)

\* C11: when neighbourhood building or history scoring fails (no ratings,
\* nothing left after the local support filter, no positive score),
\* compute_hybrid_recs raises that error and returns no list; it does not
\* return a preference-only ranking instead.
C11_FailurePropagates ==
  last # None =>
    /\ (RatedBy(ratings, MY_USER_ID) = {}) => last.raised = "no_ratings"
    /\ last.raised # "none" =>
         /\ last.out.err = last.raised
         /\ "results" \notin DOMAIN last.out
    /\ last.raised = "none" => last.out.err = "none"

\* The user has ratings and candidates to score, and the history scorer
\* found no item with a positive score.
C11_Witness ==
  /\ last # None
  /\ rateCount >= 1
  /\ last.raised = "no_positive"
  /\ last.out.err = "no_positive"
  /\ DropRated(load_candidates, RatedBy(ratings, MY_USER_ID)) # <<>>

-----------------------------------------------------------------------------
(* Validation in index() (specification Spec) *)

\* C12: a request whose alpha is outside [0,1] is rejected by index()
\* before compute_hybrid_recs runs: compute_hybrid_recs is never entered
\* with such an alpha.
C12_AlphaInRange ==
  last # None => (0 <= last.a /\ last.a <= AlphaDen)

-----------------------------------------------------------------------------
(* rate() alone, with the request it handled (specification SpecRate) *)

\* rate() for one request.  ok: the statement went through; else the
\* database raised, the except branch answers 400 and nothing is written.
\* latest: per movie, the rating of the last request that went through (0: none).
RateRequest(movie_id, rating, ok) ==
  /\ rateCount < MaxRates
  /\ ratings' = IF ok THEN Upsert(ratings, MY_USER_ID, movie_id, rating) ELSE ratings
  /\ rateCount' = rateCount + 1
  /\ submitted' = [movie_id |-> movie_id, rating |-> rating, ok |-> ok,
                   before |-> ratings,
                   latest |-> LET prev == IF submitted = None
                                          THEN [m \in Movies |-> 0]
                                          ELSE submitted.latest
                              IN IF ok THEN [prev EXCEPT ![movie_id] = rating] ELSE prev]
  /\ UNCHANGED <<TMDB_API_KEY, LANG_CACHE, phase, last, cli, normIn, normOut, fuse,
                 lookup, histRun, prefRun>>

NextRate ==
  \E movie_id \in Movies, rating \in RateValues, ok \in BOOLEAN :
    RateRequest(movie_id, rating, ok)

SpecRate == Init /\ [][NextRate]_vars

\* C13: after any sequence of rate() submissions the store holds one rating
\* per (user, item) pair, the value of the most recent successful
\* submission for the pair; a submission leaves the other pairs as they were.
C13_Upsert ==
  submitted # None =>
    /\ \A u \in Users : DOMAIN ratings[u] = Movies
    /\ submitted.ok => ratings[MY_USER_ID][submitted.movie_id] = submitted.rating
    /\ ~submitted.ok => ratings = submitted.before
    /\ \A m \in Movies :
         submitted.latest[m] # 0 => ratings[MY_USER_ID][m] = submitted.latest[m]
    /\ \A u \in Users, m \in Movies :
         (u # MY_USER_ID \/ m # submitted.movie_id) =>
            ratings[u][m] = submitted.before[u][m]

\* A second submission for a pair replaced the first, and the user's other
\* rating is still there.
C13_Witness ==
  /\ submitted # None
  /\ submitted.ok
  /\ rateCount >= 2
  /\ submitted.before[MY_USER_ID][submitted.movie_id] # 0
  /\ submitted.before[MY_USER_ID][submitted.movie_id] # submitted.rating
  /\ \E m \in Movies : m # submitted.movie_id /\ ratings[MY_USER_ID][m] # 0
  /\ submitted.latest[submitted.movie_id] = submitted.rating

-----------------------------------------------------------------------------
(* recommend_from_history on arbitrary ratings of the user (specification  *)
(* SpecHist)                                                               *)

\* A second ratings table of the other users, with movies few of them rated.
SparseRatings ==
  [u1 |-> <<10, 8, 8, 9, 0>>,
   u2 |-> <<8, 9, 2, 4, 0>>,
   u3 |-> <<9, 3, 10, 0, 0>>,
   u4 |-> <<4, 10, 0, 0, 8>>,
   u5 |-> <<2, 6, 0, 0, 10>>]

InitHist ==
  /\ \E row \in [Movies -> {0} \cup RateValues], others \in {NeighborRatings, SparseRatings} :
       ratings = [u \in Users |-> IF u = MY_USER_ID THEN row ELSE others[u]]
  /\ rateCount = 0
  /\ TMDB_API_KEY = FALSE
  /\ LANG_CACHE = EmptyCache
  /\ phase = "idle"
  /\ last = None
  /\ cli = None
  /\ SeriesIdle

\* recommend_from_history(user_id, top_n) as hybrid_recommender calls it; mat
\* is what its _build_local_matrix call returned.
RunHistory ==
  /\ histRun = None
  /\ \E neighbor_ids \in NeighborChoices(ratings, MY_USER_ID, MAX_NEIGHBORS),
        top_n \in 1..MaxTopN :
       histRun' = [user_id |-> MY_USER_ID,
                   top_n |-> top_n,
                   mat |-> _build_local_matrix(ratings, MY_USER_ID, neighbor_ids,
                                               MIN_MOVIE_RATINGS),
                   out |-> recommend_from_history(ratings, MY_USER_ID, neighbor_ids,
                                                  top_n, MIN_RATINGS)]
  /\ UNCHANGED <<ratings, rateCount, TMDB_API_KEY, LANG_CACHE, phase, last, cli,
                 normIn, normOut, fuse, submitted, lookup, prefRun>>

SpecHist == InitHist /\ [][RunHistory]_vars

\* score(j): the sum, over the items i the user rated in the neighbourhood's
\* item universe, of similarity(i, j) * (rating_i - 3.0).
HistoryScore(j) ==
  LET rated == {i \in histRun.mat.columns : HasRated(ratings, histRun.user_id, i)}
  IN SumOver(rated, [i \in rated |->
                       cosine_similarity(ratings, histRun.mat.index, i, j)
                         * (ratings[histRun.user_id][i] - NEUTRAL)])

\* The items recommend_from_history may return.
HistoryEligible ==
  {j \in histRun.mat.columns :
     /\ ~HasRated(ratings, histRun.user_id, j)
     /\ HistoryScore(j) > 0
     /\ Catalog[j].num_ratings >= MIN_RATINGS}

\* C14: recommend_from_history returns the first top_n, in descending score
\* order, of the items of the neighbourhood's universe that the user has
\* not rated, whose score is positive and whose num_ratings is at least
\* min_ratings; an item with a score that is not positive is dropped.
C14_HistoryResult ==
  (histRun # None /\ histRun.out.err = "none") =>
    LET rows == histRun.out.rows
    IN /\ Len(rows) = Min2(histRun.top_n, Cardinality(HistoryEligible))
       /\ Range(rows) \subseteq HistoryEligible
       /\ \A i, j \in DOMAIN rows : i # j => rows[i] # rows[j]
       /\ \A i \in DOMAIN rows : histRun.out.score[rows[i]] = HistoryScore(rows[i])
       /\ \A i, j \in DOMAIN rows :
            i < j => HistoryScore(rows[i]) >= HistoryScore(rows[j])
       /\ \A i \in DOMAIN rows : \A j \in HistoryEligible \ Range(rows) :
            HistoryScore(rows[i]) >= HistoryScore(j)

\* The user rated one item 5.0 and one 1.0; an unrated item with a positive
\* score is returned and an unrated item with a negative score is dropped.
C14_Witness ==
  /\ histRun # None
  /\ histRun.out.err = "none"
  /\ \E a, b \in histRun.mat.columns :
       ratings[histRun.user_id][a] = 10 /\ ratings[histRun.user_id][b] = 2
  /\ \E c \in Range(histRun.out.rows) : HistoryScore(c) > 0
  /\ \E d \in histRun.mat.columns \ Range(histRun.out.rows) :
       /\ ~HasRated(ratings, histRun.user_id, d)
       /\ HistoryScore(d) < 0
       /\ Catalog[d].num_ratings >= MIN_RATINGS

\* C17: when _build_local_matrix returns, the matrix has a row for user_id
\* with a rated item, and recommend_from_history does not fail with a
\* lookup error on that row.
C17_UserRowPresent ==
  (histRun # None /\ histRun.mat.err = "none") =>
    /\ histRun.user_id \in histRun.mat.index
    /\ \E m \in histRun.mat.columns : HasRated(ratings, histRun.user_id, m)
    /\ histRun.out.err # "key_error"

-----------------------------------------------------------------------------
(* score_by_preferences on arbitrary pools and profiles (specification     *)
(* SpecPref)                                                               *)

InitPref ==
  /\ WebIdle
  /\ SeriesIdle

\* score_by_preferences(df, prefs) for a pool of catalog rows and a profile.
ScorePool ==
  /\ prefRun = None
  /\ \E rows \in (SUBSET Movies) \ {{}}, picks \in SUBSET Genres,
        year_min \in YearMins, popularity_pref \in PopularityPrefs :
       LET df == SortedSeq(rows)
           prefs == [genre_weights |-> [g \in Genres |->
                                          IF g \in picks THEN GENRE_WEIGHT ELSE 0],
                     year_min |-> year_min,
                     popularity_pref |-> popularity_pref]
       IN prefRun' = [df |-> df, picks |-> picks, prefs |-> prefs,
                      out |-> score_by_preferences(df, prefs)]
  /\ UNCHANGED <<ratings, rateCount, TMDB_API_KEY, LANG_CACHE, phase, last, cli,
                 normIn, normOut, fuse, submitted, lookup, histRun>>

SpecPref == InitPref /\ [][ScorePool]_vars

\* The score the statement gives item m, times PrefUnit * (size of the pool):
\* avg_rating, plus the weights of the selected genres the item has, minus
\* 3.0 if genres are selected and the item has none of them, minus 2.0 if
\* its year is below year_min, plus the popularity term of the mode.
StatedScore(m) ==
  LET pool == Range(prefRun.df)
      N == Cardinality(pool)
      yr == IF Catalog[m].year = 0 THEN 1900 ELSE Catalog[m].year
      hits == prefRun.picks \cap Catalog[m].genres
      lg(x) == Log1pCenti(Catalog[x].num_ratings) * 10
      sumlg == SumOver(pool, [x \in pool |-> lg(x)])
      minlg == SetMin({lg(x) : x \in pool})
      cnt == Catalog[m].num_ratings
      fixed == Catalog[m].avg10 * 100
               + 2000 * Cardinality(hits)
               - (IF prefRun.picks # {} /\ hits = {} THEN 3000 ELSE 0)
               - (IF yr < prefRun.prefs.year_min THEN 2000 ELSE 0)
      term == CASE prefRun.prefs.popularity_pref = "popular" -> N * lg(m)
                [] prefRun.prefs.popularity_pref = "hidden" ->
                     N * ((IF cnt < 500 THEN 6 * (500 - cnt) ELSE 0)
                          - (2 * (lg(m) - minlg)) \div 10)
                [] OTHER -> (3 * (N * lg(m) - sumlg)) \div 10
  IN N * fixed + term

\* C15: score_by_preferences returns one score for every item of the pool
\* and no other, equal to the stated sum of average rating, genre weights,
\* genre penalty, year penalty and popularity term; in mixed mode items
\* with the same attributes get the same score, and an item alone in its
\* pool gets no popularity term.
C15_PreferenceScore ==
  prefRun # None =>
    /\ DOMAIN prefRun.out = Range(prefRun.df)
    /\ \A m \in Range(prefRun.df) : prefRun.out[m] = StatedScore(m)
    /\ prefRun.prefs.popularity_pref = "mixed" =>
         /\ \A m, k \in Range(prefRun.df) :
              (/\ Catalog[m].avg10 = Catalog[k].avg10
               /\ Catalog[m].genres = Catalog[k].genres
               /\ Catalog[m].year = Catalog[k].year
               /\ Catalog[m].num_ratings = Catalog[k].num_ratings)
                => prefRun.out[m] = prefRun.out[k]
         /\ Len(prefRun.df) = 1 =>
              prefRun.out[prefRun.df[1]] =
                PrefUnit * (Catalog[prefRun.df[1]].avg10 \div 10)
                + (PrefUnit \div 10) * (Catalog[prefRun.df[1]].avg10 % 10)
                + PrefUnit * GENRE_WEIGHT
                    * Cardinality(prefRun.picks \cap Catalog[prefRun.df[1]].genres)
                - (IF prefRun.picks # {}
                      /\ prefRun.picks \cap Catalog[prefRun.df[1]].genres = {}
                   THEN PrefUnit * GENRE_PENALTY ELSE 0)
                - (IF (IF Catalog[prefRun.df[1]].year = 0 THEN DEFAULT_YEAR
                       ELSE Catalog[prefRun.df[1]].year) < prefRun.prefs.year_min
                   THEN PrefUnit * YEAR_PENALTY ELSE 0)

\* A pool in which one item is too old and is scored all the same, one
\* matches a selected genre and one matches none.
C15_Witness ==
  /\ prefRun # None
  /\ prefRun.picks # {}
  /\ Len(prefRun.df) >= 3
  /\ \E m \in Range(prefRun.df) :
       /\ Catalog[m].year # 0
       /\ Catalog[m].year < prefRun.prefs.year_min
       /\ m \in DOMAIN prefRun.out
  /\ \E m \in Range(prefRun.df) : prefRun.picks \cap Catalog[m].genres # {}
  /\ \E m \in Range(prefRun.df) : prefRun.picks \cap Catalog[m].genres = {}

-----------------------------------------------------------------------------
(* get_original_language call by call (specification SpecLang) *)

\* What the provider does when asked: answer 200, answer another status, or
\* the request raises (timeout, connection error).
ProviderOutcomes == {"ok", "non200", "exception"}

InitLang ==
  /\ WebIdle
  /\ SeriesIdle
  /\ TMDB_API_KEY = FALSE

\* The process is started with or without TMDB_API_KEY in its environment.
StartWithKey ==
  /\ lookup = None
  /\ LANG_CACHE = EmptyCache
  /\ ~TMDB_API_KEY
  /\ TMDB_API_KEY' = TRUE
  /\ UNCHANGED <<ratings, rateCount, LANG_CACHE, phase, last, cli, normIn, normOut,
                 fuse, submitted, lookup, histRun, prefRun>>

\* One call get_original_language(tmdb_id); tmdb_id 0 is a missing id.
Lookup(tmdb_id, outcome) ==
  \E r \in {get_original_language(TMDB_API_KEY, LANG_CACHE,
                                  IF outcome = "ok" THEN {} ELSE {tmdb_id}, tmdb_id)} :
    /\ lookup' = [tmdb_id |-> tmdb_id, outcome |-> outcome, before |-> LANG_CACHE,
                  lang |-> r.lang, asked |-> r.asked]
    /\ LANG_CACHE' = r.cache
    /\ UNCHANGED <<ratings, rateCount, TMDB_API_KEY, phase, last, cli, normIn, normOut,
                   fuse, submitted, histRun, prefRun>>

NextLang ==
  \/ StartWithKey
  \/ \E tmdb_id \in TmdbIds \cup {0}, outcome \in ProviderOutcomes : Lookup(tmdb_id, outcome)

SpecLang == InitLang /\ [][NextLang]_vars

\* C16: with an API key, an entry of LANG_CACHE is added only on an HTTP 200
\* answer and is never changed or removed; a lookup of a cached id returns
\* the cached value and does not contact the provider; a failed lookup
\* returns unknown and leaves the cache as it was.
C16_LanguageCache ==
  (lookup # None /\ TMDB_API_KEY) =>
    /\ \A t \in TmdbIds :
         lookup.before[t] # "absent" => LANG_CACHE[t] = lookup.before[t]
    /\ \A t \in TmdbIds :
         (lookup.before[t] = "absent" /\ LANG_CACHE[t] # "absent") =>
            /\ t = lookup.tmdb_id
            /\ lookup.outcome = "ok"
            /\ lookup.asked
            /\ LANG_CACHE[t] = lookup.lang
    /\ (lookup.tmdb_id # 0 /\ lookup.before[lookup.tmdb_id] # "absent") =>
         /\ lookup.lang = lookup.before[lookup.tmdb_id]
         /\ ~lookup.asked
    /\ (lookup.tmdb_id # 0 /\ lookup.before[lookup.tmdb_id] = "absent") => lookup.asked
    /\ (lookup.asked /\ lookup.outcome # "ok") =>
         /\ lookup.lang = "NA"
         /\ LANG_CACHE = lookup.before

\* A lookup raises while another id is already cached: it returns unknown
\* and its id has no entry afterwards.
C16_Witness ==
  /\ lookup # None
  /\ TMDB_API_KEY
  /\ lookup.asked
  /\ lookup.outcome = "exception"
  /\ lookup.lang = "NA"
  /\ \E t \in TmdbIds : lookup.before[t] = "fr"
  /\ LANG_CACHE[lookup.tmdb_id] = "absent"

=============================================================================
